---- MODULE Spec2Model ----
(***************************************************************************)
(* Model of the Refactoring Swarm: the LangGraph loop of src/graph.py      *)
(* (auditor -> fixer -> judge -> check_status), the agents it drives, the  *)
(* sandboxed file tools of src/tools/files.py and the pytest wrapper of    *)
(* src/tools/testing.py.  Python strings are TLA+ strings; Python's None   *)
(* is the distinguished string None.                                       *)
(***************************************************************************)
EXTENDS Integers, Sequences, FiniteSets, TLC

VARIABLES
    SANDBOX_DIR,   \* files.py: module-level _SANDBOX_DIR
    vcall,         \* the last direct call of validate_sandbox_path and its outcome
    pc,            \* position of the run: main, a graph node, or how it ended
    state,         \* graph.py: AgentState of the task being processed
    fs,            \* contents of the regular files of the file system
    fsLog,         \* every access to the file system made by Analyze and Fix
    log,           \* logger.py: records of logs/experiment_data.json
    fixCalls,      \* number of FixerAgent.fix calls of the task that returned
    verdicts,      \* the task's judge steps so far: the pytest run and its label
    todo,          \* main.py: the py_files still to process, in list order
    gov,           \* base.py: the clock, the generation calls and the checkpoint
    tasks,         \* the tasks main has left so far: the file and how it ended
    steps,         \* the graph nodes the task has run so far, in order
    jcall,         \* the last direct call of _classify_failure and its outcome
    lcall,         \* the last direct call of log_experiment and its outcome
    twin,          \* the same task with another pylint score: its pc and state
    fixed,         \* what the last FixerAgent.fix of the task returned
    xcall          \* the last direct call of run_pytest and its outcome

vars == <<SANDBOX_DIR, vcall, pc, state, fs, fsLog, log, fixCalls, verdicts, todo,
          gov, tasks, steps, jcall, lcall, twin, fixed, xcall>>

None == "<None>"

(***************************************************************************)
(* Python str operations                                                   *)
(***************************************************************************)

\* s.startswith(p)
StartsWith(s, p) == Len(s) >= Len(p) /\ SubSeq(s, 1, Len(p)) = p

\* s.endswith(p)
EndsWith(s, p) == Len(s) >= Len(p) /\ SubSeq(s, Len(s) - Len(p) + 1, Len(s)) = p

\* p in s
Contains(s, p) ==
    \E i \in 1..(Len(s) - Len(p) + 1) : SubSeq(s, i, i + Len(p) - 1) = p

\* the character of s at position i (1-based)
CharAt(s, i) == SubSeq(s, i, i)

(***************************************************************************)
(* The file system the run sees: posix paths, a working directory and a    *)
(* table of symbolic links (link path -> absolute target).                 *)
(***************************************************************************)

Cwd == "/w"

Links == ("/sb/lnk" :> "/out") @@ ("/alias" :> "/sb") @@ ("/sb/in" :> "/sb/d")

IsAbs(p) == StartsWith(p, "/")

\* the non-empty components of a path, split at "/"
RECURSIVE SplitPath(_, _, _, _)
SplitPath(p, i, cur, acc) ==
    IF i > Len(p)
    THEN IF cur = "" THEN acc ELSE Append(acc, cur)
    ELSE IF CharAt(p, i) = "/"
         THEN SplitPath(p, i + 1, "", IF cur = "" THEN acc ELSE Append(acc, cur))
         ELSE SplitPath(p, i + 1, cur \o CharAt(p, i), acc)

Components(p) == SplitPath(p, 1, "", <<>>)

\* the absolute path made of the components
RECURSIVE JoinPath(_)
JoinPath(comps) ==
    IF comps = <<>> THEN "/"
    ELSE IF Len(comps) = 1 THEN "/" \o comps[1]
    ELSE JoinPath(SubSeq(comps, 1, Len(comps) - 1)) \o "/" \o comps[Len(comps)]

\* posixpath._joinrealpath: "." is dropped, ".." pops, a symbolic link is
\* replaced by its resolved target
RECURSIVE Resolve(_, _)
Resolve(stack, rest) ==
    IF rest = <<>> THEN stack
    ELSE LET c == Head(rest)
             t == Tail(rest)
         IN  IF c = "." THEN Resolve(stack, t)
             ELSE IF c = ".."
             THEN Resolve(IF stack = <<>> THEN <<>>
                          ELSE SubSeq(stack, 1, Len(stack) - 1), t)
             ELSE IF JoinPath(Append(stack, c)) \in DOMAIN Links
             THEN Resolve(<<>>, Components(Links[JoinPath(Append(stack, c))]) \o t)
             ELSE Resolve(Append(stack, c), t)

\* the components of the canonical form of p
Canonical(p) ==
    Resolve(<<>>, (IF IsAbs(p) THEN <<>> ELSE Components(Cwd)) \o Components(p))

\* os.path.realpath
realpath(p) == JoinPath(Canonical(p))

\* os.path.dirname
dirname(p) ==
    LET c == Components(p)
    IN  IF c = <<>> THEN (IF IsAbs(p) THEN "/" ELSE "")
        ELSE IF Len(c) = 1 THEN (IF IsAbs(p) THEN "/" ELSE "")
        ELSE (IF IsAbs(p) THEN JoinPath(SubSeq(c, 1, Len(c) - 1))
              ELSE SubSeq(JoinPath(SubSeq(c, 1, Len(c) - 1)), 2,
                          Len(JoinPath(SubSeq(c, 1, Len(c) - 1)))))

\* os.path.basename
basename(p) ==
    IF p = "" \/ EndsWith(p, "/") THEN ""
    ELSE Components(p)[Len(Components(p))]

\* os.path.join(a, b) for a relative b
pathjoin(a, b) ==
    IF a = "" THEN b
    ELSE IF EndsWith(a, "/") THEN a \o b
    ELSE a \o "/" \o b

(***************************************************************************)
(* src/tools/files.py                                                      *)
(***************************************************************************)

\* files.py:44: resolved_path.startswith(resolved_sandbox + os.sep)
\*              or resolved_path == resolved_sandbox
InsideSandbox(resolved_path, resolved_sandbox) ==
    \/ StartsWith(resolved_path, resolved_sandbox \o "/")
    \/ resolved_path = resolved_sandbox

\* validate_sandbox_path without the test of files.py:36: an unset root is
\* taken to be the working directory
validate_sandbox_path_unchecked(file_path, sandbox_dir) ==
    LET effective_sandbox ==
            IF sandbox_dir \in {None, ""} THEN SANDBOX_DIR ELSE sandbox_dir
        root == IF effective_sandbox = None THEN Cwd ELSE effective_sandbox
    IN  IF ~InsideSandbox(realpath(file_path), realpath(root))
        THEN [kind |-> "PermissionError", path |-> None]
        ELSE [kind |-> "ok", path |-> realpath(file_path)]

\* validate_sandbox_path(file_path, sandbox_dir): the path returned, or the
\* exception raised
validate_sandbox_path(file_path, sandbox_dir) ==
    LET effective_sandbox ==
            IF sandbox_dir \in {None, ""} THEN SANDBOX_DIR ELSE sandbox_dir
    IN  IF effective_sandbox = None
        THEN [kind |-> "ValueError", path |-> None]
        ELSE IF ~InsideSandbox(realpath(file_path), realpath(effective_sandbox))
        THEN [kind |-> "PermissionError", path |-> None]
        ELSE [kind |-> "ok", path |-> realpath(file_path)]

\* set_sandbox_dir(directory): the new value of _SANDBOX_DIR
set_sandbox_dir(directory) == realpath(directory)

\* an access to the file system: the operation, the canonical path, the
\* function that made it and whether validate_sandbox_path let it through
Access(op, path, by, gated) ==
    [op |-> op, path |-> path, by |-> by, gated |-> gated]

\* read_file(file_path) on file system f: the string returned and the
\* accesses made
read_file(f, file_path) ==
    LET v == validate_sandbox_path(file_path, None)
    IN  IF v.kind = "PermissionError"
        THEN [ret |-> "Security Error: SANDBOX VIOLATION: " \o file_path,
              acc |-> <<>>]
        ELSE IF v.kind = "ValueError"
        THEN [ret |-> "Error reading file " \o file_path
                        \o ": Sandbox directory not configured.",
              acc |-> <<>>]
        ELSE IF f[v.path] = None
        THEN [ret |-> "Error reading file " \o file_path
                        \o ": No such file or directory",
              acc |-> <<>>]
        ELSE [ret |-> f[v.path],
              acc |-> <<Access("read", v.path, "read_file", TRUE)>>]

\* write_file(file_path, content) on file system f: the string returned,
\* the file system afterwards and the accesses made
write_file(f, file_path, content) ==
    LET v == validate_sandbox_path(file_path, None)
    IN  IF v.kind = "PermissionError"
        THEN [ret |-> "Security Error: SANDBOX VIOLATION: " \o file_path,
              fs |-> f, acc |-> <<>>]
        ELSE IF v.kind = "ValueError"
        THEN [ret |-> "Error writing to file " \o file_path
                        \o ": Sandbox directory not configured.",
              fs |-> f, acc |-> <<>>]
        ELSE [ret |-> "Successfully wrote to " \o v.path,
              fs |-> [f EXCEPT ![v.path] = content],
              acc |-> <<Access("write", v.path, "write_file", TRUE)>>]

\* os.path.exists
exists(f, path) == realpath(path) \in DOMAIN f /\ f[realpath(path)] # None

(***************************************************************************)
(* src/tools/testing.py                                                    *)
(***************************************************************************)

\* len(re.findall(p, s)) for a literal p: the non-overlapping occurrences
RECURSIVE CountFrom(_, _, _)
CountFrom(s, p, i) ==
    LET occ == {j \in i..(Len(s) - Len(p) + 1) : SubSeq(s, j, j + Len(p) - 1) = p}
        n == CHOOSE j \in occ : \A k \in occ : j <= k
    IN  IF occ = {} THEN 0 ELSE 1 + CountFrom(s, p, n + Len(p))

CountOcc(s, p) == CountFrom(s, p, 1)

\* what subprocess.run(["pytest", ...], timeout=120) can do: exit with a
\* return code and output, exceed the timeout, or fail to start
PytestRuns ==
    { [kind |-> "exit", returncode |-> 0, msg |-> "",
       stdout |-> "test_app.py::test_a PASSED\n== 1 passed in 0.01s ==", stderr |-> ""],
      [kind |-> "exit", returncode |-> 1, msg |-> "",
       stdout |-> "test_app.py::test_a FAILED\n== 1 failed in 0.02s ==", stderr |-> ""],
      [kind |-> "exit", returncode |-> 2, msg |-> "",
       stdout |-> "ERROR test_app.py\nE ModuleNotFoundError: No module named 'app'",
       stderr |-> ""],
      [kind |-> "exit", returncode |-> 5, msg |-> "",
       stdout |-> "== no tests ran in 0.00s ==", stderr |-> ""],
      [kind |-> "timeout", returncode |-> 0, msg |-> "", stdout |-> "", stderr |-> ""],
      [kind |-> "exception", returncode |-> 0,
       msg |-> "[Errno 2] No such file or directory: 'pytest'",
       stdout |-> "", stderr |-> ""] }

\* the position of the first occurrence of p in s, 0 when there is none
FirstIndex(s, p) ==
    LET occ == {i \in 1..(Len(s) - Len(p) + 1) : SubSeq(s, i, i + Len(p) - 1) = p}
    IN  IF occ = {} THEN 0 ELSE CHOOSE i \in occ : \A j \in occ : i <= j

\* the characters that \s matches
RegexSpace == {" ", "\n", "\t", "\r"}

\* the first position at or after i of s that does not hold "="
RECURSIVE RunEnd(_, _)
RunEnd(s, i) ==
    IF i <= Len(s) /\ CharAt(s, i) = "=" THEN RunEnd(s, i + 1) ELSE i

\* =+\s+ matches at position i of s
SeparatorAt(s, i) ==
    /\ CharAt(s, i) = "="
    /\ RunEnd(s, i) <= Len(s)
    /\ CharAt(s, RunEnd(s, i)) \in RegexSpace

\* re.search(r'(word.*?)(?:=+\s+|$)', output, re.DOTALL).group(1): the text
\* from the first `word` up to the first run of "=" followed by white space,
\* or up to the end of the output (before its last newline, if it ends
\* with one); None when `word` does not occur
Section(output, word) ==
    LET f == FirstIndex(output, word)
        ends == {e \in (f + Len(word))..Len(output) : SeparatorAt(output, e)}
                \cup (IF EndsWith(output, "\n") /\ Len(output) >= f + Len(word)
                      THEN {Len(output)} ELSE {})
                \cup {Len(output) + 1}
        e == CHOOSE x \in ends : \A y \in ends : x <= y
    IN  IF f = 0 THEN None ELSE SubSeq(output, f, e - 1)

ExcerptCap == 2000

TailCap == 1000

TruncationMarker == "\n...(truncated)"

\* content[:2000] + "\n...(truncated)" if len(content) > 2000 else content
Truncate(content) ==
    IF Len(content) > ExcerptCap
    THEN SubSeq(content, 1, ExcerptCap) \o TruncationMarker
    ELSE content

\* output[-1000:] if len(output) > 1000 else output
LastPart(output) ==
    IF Len(output) > TailCap
    THEN SubSeq(output, Len(output) - TailCap + 1, Len(output))
    ELSE output

\* extract_test_failures(output)
extract_test_failures(output) ==
    IF Section(output, "FAILED") # None THEN Truncate(Section(output, "FAILED"))
    ELSE IF Section(output, "ERROR") # None THEN Truncate(Section(output, "ERROR"))
    ELSE LastPart(output)

\* run_pytest: the "error_details" entry of the dictionary returned
error_details(success, output) ==
    IF success THEN None
    ELSE IF extract_test_failures(output) = "" THEN None
    ELSE extract_test_failures(output)

\* test_results before any judge step (the {} of main.py)
NoResults ==
    [ran |-> FALSE, success |-> FALSE, output |-> "", tests_passed |-> 0,
     tests_failed |-> 0, tests_error |-> 0, error_type |-> None,
     error_details |-> None]

\* run_pytest, except subprocess.TimeoutExpired: the dictionary returned; it
\* has no "error_type" key (None here)
run_pytest_timeout ==
    [ran |-> TRUE, success |-> FALSE,
     output |-> "ERROR: Tests timed out after 120 seconds",
     tests_passed |-> 0, tests_failed |-> 0, tests_error |-> 1,
     error_type |-> None,
     error_details |-> "Tests timed out - possible infinite loop or hanging test"]

\* success computed as "pytest did not report failed tests" (exit code 1)
pytest_success_not1(returncode) == returncode # 1

\* testing.py:34-39: success = result.returncode == 0, and False for exit
\* code 5 (no tests collected)
pytest_success(returncode) ==
    IF returncode = 5 THEN FALSE ELSE returncode = 0

\* run_pytest(test_dir) when the pytest process behaves as `run`: the fields
\* of the dictionary that the judge and the graph read
run_pytest(run) ==
    IF run.kind = "timeout" THEN run_pytest_timeout
    ELSE IF run.kind = "exception"
    THEN [ran |-> TRUE, success |-> FALSE,
          output |-> "Error running pytest: " \o run.msg,
          tests_passed |-> 0, tests_failed |-> 0, tests_error |-> 1,
          error_type |-> None,
          error_details |-> run.msg]
    ELSE LET output ==
                 IF run.returncode = 5
                 THEN run.stdout \o "\n" \o run.stderr \o
                      "\n\nNO TESTS FOUND: Pytest exit code 5. functionality needs to be tested."
                 ELSE run.stdout \o "\n" \o run.stderr
         IN  [ran |-> TRUE,
              success |-> pytest_success(run.returncode),
              output |-> output,
              tests_passed |-> CountOcc(output, "PASSED"),
              tests_failed |-> CountOcc(output, "FAILED"),
              tests_error |-> CountOcc(output, "ERROR"),
              error_type |-> None,
              error_details |-> error_details(pytest_success(run.returncode), output)]

(***************************************************************************)
(* src/agents/judge.py                                                     *)
(***************************************************************************)

\* the patterns without the two that end in "not found"
ENVIRONMENT_ERROR_PATTERNS_short ==
    << "WinError", "FileNotFoundError", "No module named",
       "not recognized as an internal", "TIMEOUT", "ENVIRONMENT_ERROR" >>

ENVIRONMENT_ERROR_PATTERNS ==
    << "WinError", "FileNotFoundError", "No module named", "command not found",
       "not recognized as an internal", "not found", "TIMEOUT",
       "ENVIRONMENT_ERROR" >>

\* the text matched before the structured error_type is looked at
classify_failure_text_first(results) ==
    IF \E i \in DOMAIN ENVIRONMENT_ERROR_PATTERNS :
            Contains(results.output, ENVIRONMENT_ERROR_PATTERNS[i])
    THEN "ENVIRONMENT_ERROR"
    ELSE IF results.error_type \in {"ENVIRONMENT_ERROR", "TIMEOUT"}
    THEN results.error_type
    ELSE "CODE_ERROR"

\* any error_type present taken as an environment signal
classify_failure_any_signal(results) ==
    IF results.error_type # None
    THEN "ENVIRONMENT_ERROR"
    ELSE IF \E i \in DOMAIN ENVIRONMENT_ERROR_PATTERNS :
                Contains(results.output, ENVIRONMENT_ERROR_PATTERNS[i])
    THEN "ENVIRONMENT_ERROR"
    ELSE "CODE_ERROR"

\* JudgeAgent._classify_failure(results); results.get("error_type") of a
\* dictionary without the key is None
classify_failure(results) ==
    IF results.error_type \in {"ENVIRONMENT_ERROR", "TIMEOUT"}
    THEN results.error_type
    ELSE IF \E i \in DOMAIN ENVIRONMENT_ERROR_PATTERNS :
                Contains(results.output, ENVIRONMENT_ERROR_PATTERNS[i])
    THEN "ENVIRONMENT_ERROR"
    ELSE "CODE_ERROR"

\* no direct call of run_pytest yet
NoXCall ==
    [made |-> FALSE,
     run |-> [kind |-> None, returncode |-> 0, msg |-> "", stdout |-> "", stderr |-> ""],
     results |-> NoResults]

\* no direct call of _classify_failure yet
NoJCall == [made |-> FALSE, results |-> NoResults, label |-> None, again |-> None]

\* a record of the experiment log (logger.py: entry)
LogEntry(agent, action, status, iteration) ==
    [agent |-> agent, action |-> action, status |-> status, iteration |-> iteration]

(***************************************************************************)
(* src/utils/logger.py                                                     *)
(***************************************************************************)

\* [a.value for a in ActionType]
valid_actions == {"CODE_ANALYSIS", "CODE_GEN", "DEBUG", "FIX"}

\* the two keys of `details` that log_experiment looks at; None: key absent
Details(input_prompt, output_response) ==
    [input_prompt |-> input_prompt, output_response |-> output_response]

\* a log_experiment that writes a file holding the new record only
log_experiment_overwrite(lg, agent_name, action, details, status, iteration) ==
    IF action \notin valid_actions
    THEN [raised |-> "ValueError", log |-> lg]
    ELSE IF details.input_prompt = None \/ details.output_response = None
    THEN [raised |-> "ValueError", log |-> lg]
    ELSE [raised |-> None,
          log |-> <<LogEntry(agent_name, action, status, iteration)>>]

\* log_experiment(...) on the log lg (the list read back from LOG_FILE,
\* which only log_experiment writes): the exception raised (None when it
\* returns) and the log afterwards
log_experiment(lg, agent_name, action, details, status, iteration) ==
    IF action \notin valid_actions
    THEN [raised |-> "ValueError", log |-> lg]
    ELSE IF details.input_prompt = None \/ details.output_response = None
    THEN [raised |-> "ValueError", log |-> lg]
    ELSE [raised |-> None,
          log |-> Append(lg, LogEntry(agent_name, action, status, iteration))]

\* no direct call of log_experiment yet
NoLCall ==
    [made |-> FALSE, action |-> None, details |-> Details(None, None),
     raised |-> None, appended |-> FALSE]

\* JudgeAgent.evaluate(test_dir) when pytest behaves as `run`: the results
\* returned (error_type added) and the record logged
evaluate(run) ==
    LET results == run_pytest(run)
        error_type == IF results.success THEN None ELSE classify_failure(results)
    IN  [results |-> [results EXCEPT !.error_type = error_type],
         entry |-> LogEntry("Judge_Agent", "DEBUG",
                            IF results.success THEN "SUCCESS" ELSE "FAILURE", None)]

(***************************************************************************)
(* src/agents/fixer.py                                                     *)
(***************************************************************************)

Whitespace == {" ", "\n", "\t"}

RECURSIVE LStrip(_)
LStrip(s) ==
    IF Len(s) > 0 /\ CharAt(s, 1) \in Whitespace
    THEN LStrip(SubSeq(s, 2, Len(s))) ELSE s

RECURSIVE RStrip(_)
RStrip(s) ==
    IF Len(s) > 0 /\ CharAt(s, Len(s)) \in Whitespace
    THEN RStrip(SubSeq(s, 1, Len(s) - 1)) ELSE s

\* str.strip()
Strip(s) == LStrip(RStrip(s))

\* the markdown fence of three backquotes, written with tildes (a TLA+
\* string cannot hold a backquote)
Fence == "~~~"

\* FixerAgent._clean_code_output(code)
clean_code_output(code) ==
    LET c0 == Strip(code)
        c1 == IF StartsWith(c0, Fence \o "python") THEN SubSeq(c0, 10, Len(c0)) ELSE c0
        c2 == IF StartsWith(c1, Fence) THEN SubSeq(c1, 4, Len(c1)) ELSE c1
        c3 == IF EndsWith(c2, Fence) THEN SubSeq(c2, 1, Len(c2) - 3) ELSE c2
    IN  Strip(c3)

(***************************************************************************)
(* The external collaborators: what pylint and the generation engine can   *)
(* answer.                                                                 *)
(***************************************************************************)

\* run_pylint: pylint ran on the file and rated it (score in hundredths), or
\* it is not installed (FileNotFoundError: score 0.0, the file is not read)
PylintRuns ==
    { [available |-> TRUE, score |-> 833],
      [available |-> TRUE, score |-> 1000],
      [available |-> FALSE, score |-> 0] }

\* BaseAgent.invoke_with_delay: the chain returns, raises ResourceExhausted
\* (sys.exit(1)), or raises another exception (re-raised)
LLMOutcomes == {"ok", "quota", "error"}

Plans == {"1. add docstrings 2. fix division by zero"}

\* a response that is a mapping of relative file names to contents
MultiFileResponse == "{\"../evil.py\": \"z = 1\", \"helper.py\": \"y = 1\"}"

Codes == {"x = 1", "~~~python\nx = 2\n~~~"}

TestCodes == {"~~~python\ndef test_a(): assert True\n~~~"}

\* a quota error that reaches main as an ordinary exception
LLMFailure_raise(outcome) == "raised"

\* where a node ends when the generation call does not return: sys.exit(1)
\* raises SystemExit, which main's `except Exception` does not catch
LLMFailure(outcome) == IF outcome = "quota" THEN "exit" ELSE "raised"

(***************************************************************************)
(* src/agents/base.py: BaseAgent.invoke_with_delay, in its three steps:    *)
(* time.sleep, chain.invoke, and the return or the exception handling.     *)
(* Times are whole seconds of one clock.                                   *)
(***************************************************************************)

DELAY_BETWEEN_CALLS == 5

NoCheckpoint == [written |-> FALSE, error |-> None, timestamp |-> 0]

\* before the first invocation
NoGov ==
    [clock |-> 0, phase |-> "idle", inflight |-> 0, callTimes |-> <<>>,
     callers |-> <<>>, attempts |-> 0, outcome |-> None, error |-> None,
     raised |-> None, quota |-> FALSE, saveTried |-> FALSE, saveOk |-> FALSE,
     checkpoint |-> NoCheckpoint, exitCode |-> 0]

\* invoke_with_delay entered without the sleep
gv_sleep_none(g, caller, extra) ==
    [g EXCEPT !.phase = "ready",
              !.callers = Append(g.callers, caller),
              !.attempts = 0, !.outcome = None, !.error = None, !.raised = None]

\* base.py:26: time.sleep(DELAY_BETWEEN_CALLS); the sleep lasts at least the
\* delay (extra >= 0 more)
gv_sleep(g, caller, extra) ==
    [g EXCEPT !.clock = g.clock + DELAY_BETWEEN_CALLS + extra,
              !.phase = "ready",
              !.callers = Append(g.callers, caller),
              !.attempts = 0, !.outcome = None, !.error = None, !.raised = None]

\* chain.invoke issued without waiting for its answer
gv_start_async(g) ==
    [g EXCEPT !.phase = "idle",
              !.inflight = g.inflight + 1,
              !.attempts = g.attempts + 1,
              !.callTimes = Append(g.callTimes, g.clock)]

\* base.py:29: chain.invoke(input_data) is issued; the caller blocks
gv_start(g) ==
    [g EXCEPT !.phase = "calling",
              !.inflight = g.inflight + 1,
              !.attempts = g.attempts + 1,
              !.callTimes = Append(g.callTimes, g.clock)]

\* base.py:30-52: except ResourceExhausted: the checkpoint is written to
\* STATE_SAVE_FILE (a failure of the write is printed and ignored), then
\* sys.exit(1)
gv_on_quota(g, save_ok) ==
    [g EXCEPT !.phase = "exit", !.outcome = "exit", !.error = "ResourceExhausted",
              !.quota = TRUE, !.saveTried = TRUE, !.saveOk = save_ok,
              !.checkpoint = IF save_ok
                             THEN [written |-> TRUE, error |-> "ResourceExhausted",
                                   timestamp |-> g.clock]
                             ELSE g.checkpoint,
              !.exitCode = 1]

\* every exception of the chain handled as a quota error
gv_on_error_as_quota(g, exc) ==
    [g EXCEPT !.phase = "exit", !.outcome = "exit", !.error = exc,
              !.quota = TRUE, !.saveTried = TRUE, !.saveOk = TRUE,
              !.checkpoint = [written |-> TRUE, error |-> "ResourceExhausted",
                              timestamp |-> g.clock],
              !.exitCode = 1]

\* base.py:53-55: except Exception: raise
gv_on_error(g, exc) ==
    [g EXCEPT !.phase = "idle", !.outcome = "raised", !.error = exc, !.raised = exc]

\* chain.invoke ends after dur seconds: it returns, raises ResourceExhausted
\* ("quota"), or raises another exception (named by outcome)
gv_finish(g, outcome, dur, save_ok) ==
    LET g1 == [g EXCEPT !.clock = g.clock + dur, !.inflight = g.inflight - 1]
    IN  IF outcome = "ok" THEN [g1 EXCEPT !.phase = "idle", !.outcome = "returned"]
        ELSE IF outcome = "quota" THEN gv_on_quota(g1, save_ok)
        ELSE gv_on_error(g1, outcome)

\* invoke_with_delay(chain, input_data) as one step
invoke_with_delay(g, caller, outcome, save_ok) ==
    gv_finish(gv_start(gv_sleep(g, caller, 0)), outcome, 0, save_ok)

(***************************************************************************)
(* src/graph.py                                                            *)
(***************************************************************************)

\* the value of `state` outside any task
NoTask ==
    [target_file |-> None, current_code |-> "", refactoring_plan |-> "",
     pylint_score |-> 0, test_results |-> NoResults, iterations |-> 0,
     max_iterations |-> 0, error_context |-> "", status |-> None]

\* main.py: initial_state of a task; main passes max_iterations = 10, the
\* compiled graph accepts any value
initial_state(py_file, max_iterations) ==
    [target_file |-> py_file, current_code |-> "", refactoring_plan |-> "",
     pylint_score |-> 0, test_results |-> NoResults, iterations |-> 0,
     max_iterations |-> max_iterations, error_context |-> "", status |-> "START"]

\* an auditor update that does not count an iteration
auditor_update_nocount(st, plan, pylint_score, original_code) ==
    [st EXCEPT !.refactoring_plan = plan,
               !.pylint_score = pylint_score,
               !.current_code = original_code,
               !.error_context = None]

\* auditor_node: the state update returned for analyze's result
auditor_update(st, plan, pylint_score, original_code) ==
    [st EXCEPT !.refactoring_plan = plan,
               !.pylint_score = pylint_score,
               !.current_code = original_code,
               !.iterations = st.iterations + 1,
               !.error_context = None]

\* a fixer update that does not count an iteration
fixer_update_nocount(st, fixed_code) ==
    [st EXCEPT !.current_code = fixed_code]

\* a fixer update that leaves current_code as the auditor read it
fixer_update_keepcode(st, fixed_code) ==
    [st EXCEPT !.iterations = st.iterations + 1]

\* a fixer update that also replaces the plan
fixer_update_replan(st, fixed_code) ==
    [st EXCEPT !.current_code = fixed_code,
               !.refactoring_plan = fixed_code,
               !.iterations = st.iterations + 1]

\* fixer_node: the state update returned for fix's result
fixer_update(st, fixed_code) ==
    [st EXCEPT !.current_code = fixed_code,
               !.iterations = st.iterations + 1]

\* judge_node: the state update returned for evaluate's results
judge_update(st, results) ==
    [st EXCEPT !.test_results = results,
               !.status = IF results.success THEN "SUCCESS" ELSE "FAILURE",
               !.error_context = IF ~results.success THEN results.output ELSE None]

\* check_status ending the task on a perfect pylint score
check_status_score(st) ==
    IF st.status = "SUCCESS" THEN "end"
    ELSE IF st.pylint_score >= 1000 THEN "end"
    ELSE IF st.iterations >= st.max_iterations THEN "end"
    ELSE "fix_again"

\* check_status with the budget test off by one
check_status_gt(st) ==
    IF st.status = "SUCCESS" THEN "end"
    ELSE IF st.iterations > st.max_iterations THEN "end"
    ELSE "fix_again"

\* check_status(state): the edge taken after the judge
check_status(st) ==
    IF st.status = "SUCCESS" THEN "end"
    ELSE IF st.iterations >= st.max_iterations THEN "end"
    ELSE "fix_again"

\* a node run by the graph; wrote: FixerAgent.fix wrote the source file
Step(node, wrote) == [node |-> node, wrote |-> wrote]

\* fixer_node: the arguments it passes to FixerAgent.fix
fix_args(st) ==
    [file_path |-> st.target_file, code_content |-> st.current_code,
     plan |-> st.refactoring_plan, error_context |-> st.error_context]

\* another pylint score than the one reported
OtherScore(score) == IF score = 1000 THEN 0 ELSE 1000

\* the conditional edge sending "fix_again" back to the auditor
edge_target_reaudit(edge) == IF edge = "end" THEN "END" ELSE "auditor"

\* create_graph: the mapping of the conditional edge after the judge
edge_target(edge) == IF edge = "end" THEN "END" ELSE "fixer"

\* FixerAgent.fix: the path of the companion test file
test_file_path(file_path) ==
    pathjoin(dirname(file_path), "test_" \o basename(file_path))

\* node "auditor": AuditorAgent.analyze (read_file, run_pylint, the
\* generation call, the log record) and the state update
auditor_node(pyl, llm, plan, save) ==
    /\ pc = "auditor"
    /\ gov' = invoke_with_delay(gov, "analyze", llm, save)
    /\ LET rd == read_file(fs, state.target_file)
           lint == IF pyl.available /\ exists(fs, state.target_file)
                   THEN <<Access("read", realpath(state.target_file),
                                 "run_pylint", FALSE)>>
                   ELSE <<>>
       IN  /\ fsLog' = fsLog \o rd.acc \o lint
           /\ IF llm # "ok"
              THEN /\ pc' = LLMFailure(llm)
                   /\ UNCHANGED <<state, log>>
              ELSE /\ pc' = "fixer"
                   /\ state' = auditor_update(state, plan, pyl.score, rd.ret)
                   /\ log' = Append(log, LogEntry("Auditor_Agent", "CODE_ANALYSIS",
                                                  "SUCCESS", None))
    /\ steps' = Append(steps, Step("auditor", FALSE))
    /\ twin' = IF llm # "ok"
               THEN [twin EXCEPT !.pc = LLMFailure(llm)]
               ELSE [pc |-> "fixer",
                     state |-> auditor_update(twin.state, plan, OtherScore(pyl.score),
                                              read_file(fs, twin.state.target_file).ret)]
    /\ UNCHANGED <<SANDBOX_DIR, vcall, fs, fixCalls, verdicts, todo, tasks, jcall, lcall,
                   fixed, xcall>>

\* node "fixer": FixerAgent.fix (the generation call, write_file of the
\* source, test generation when the test file does not exist, the log
\* records) and the state update
fixer_node(llm1, code, llm2, tcode, save) ==
    /\ pc = "fixer"
    /\ IF llm1 # "ok"
       THEN /\ pc' = LLMFailure(llm1)
            /\ gov' = invoke_with_delay(gov, "fix", llm1, save)
            /\ steps' = Append(steps, Step("fixer", FALSE))
            /\ twin' = [twin EXCEPT !.pc = LLMFailure(llm1)]
            /\ UNCHANGED <<state, fs, fsLog, log, fixCalls, fixed>>
       ELSE LET fixed_code == clean_code_output(code)
                g1 == invoke_with_delay(gov, "fix", llm1, save)
                g2 == invoke_with_delay(g1, "generate_tests", llm2, save)
                w1 == write_file(fs, fix_args(state).file_path, fixed_code)
                wrote == StartsWith(w1.ret, "Successfully wrote")
                tpath == test_file_path(state.target_file)
                probe == <<Access("exists", realpath(tpath), "fix", FALSE)>>
                generate == ~exists(w1.fs, tpath)
                w2 == write_file(w1.fs, tpath, clean_code_output(tcode))
            IN  IF generate /\ llm2 # "ok"
                THEN /\ pc' = LLMFailure(llm2)
                     /\ gov' = g2
                     /\ steps' = Append(steps, Step("fixer", wrote))
                     /\ fs' = w1.fs
                     /\ fsLog' = fsLog \o w1.acc \o probe
                     /\ twin' = [twin EXCEPT !.pc = LLMFailure(llm2)]
                     /\ UNCHANGED <<state, log, fixCalls, fixed>>
                ELSE /\ pc' = "judge"
                     /\ gov' = IF generate THEN g2 ELSE g1
                     /\ steps' = Append(steps, Step("fixer", wrote))
                     /\ fs' = IF generate THEN w2.fs ELSE w1.fs
                     /\ fsLog' = fsLog \o w1.acc \o probe
                                       \o (IF generate THEN w2.acc ELSE <<>>)
                     /\ log' = log
                               \o (IF generate
                                   THEN <<LogEntry("Fixer_Agent", "CODE_GEN",
                                                   "SUCCESS", None)>>
                                   ELSE <<>>)
                               \o <<LogEntry("Fixer_Agent", "FIX", "SUCCESS", None)>>
                     /\ state' = fixer_update(state, fixed_code)
                     /\ twin' = [pc |-> "judge",
                                 state |-> fixer_update(twin.state, fixed_code)]
                     /\ fixed' = fixed_code
                     /\ fixCalls' = fixCalls + 1
    /\ UNCHANGED <<SANDBOX_DIR, vcall, verdicts, todo, tasks, jcall, lcall, xcall>>

\* node "judge" and the conditional edge after it: JudgeAgent.evaluate
\* (run_pytest, _classify_failure, the log record), the state update and
\* check_status on the updated state
judge_node(run) ==
    /\ pc = "judge"
    /\ LET ev == evaluate(run)
           st == judge_update(state, ev.results)
       IN  /\ state' = st
           /\ log' = Append(log, ev.entry)
           /\ verdicts' = Append(verdicts,
                                 [kind |-> run.kind,
                                  returncode |-> run.returncode,
                                  success |-> ev.results.success,
                                  error_type |-> ev.results.error_type])
           /\ pc' = edge_target(check_status(st))
           /\ twin' = LET st2 == judge_update(twin.state, ev.results)
                      IN  [pc |-> edge_target(check_status(st2)), state |-> st2]
    /\ steps' = Append(steps, Step("judge", FALSE))
    /\ UNCHANGED <<SANDBOX_DIR, vcall, fs, fsLog, fixCalls, todo, gov, tasks, jcall, lcall,
                   fixed, xcall>>

(***************************************************************************)
(* src/main.py                                                             *)
(***************************************************************************)

MaxBudget == 3

Budgets == 0..MaxBudget

\* the target files main can be given: inside the sandbox, outside it, and
\* through a symbolic link of the sandbox that leads outside
Targets == {"/sb/app.py", "/out/app.py", "/sb/lnk/app.py"}

FileLists == {<<>>} \cup {<<t>> : t \in Targets}

\* the regular files, by canonical path; None where there is no file
InitialFS ==
    { ("/sb/app.py" :> "x = 0") @@ ("/out/app.py" :> "secret = 1")
        @@ ("/sb/test_app.py" :> t) @@ ("/out/test_app.py" :> None)
        @@ ("/sb/helper.py" :> None) @@ ("/evil.py" :> None)
      : t \in {None, "def test_a(): assert x == 1"} }

\* no direct call of validate_sandbox_path yet
NoCall == [file_path |-> None, sandbox_dir |-> None, root |-> None,
           result |-> [kind |-> None, path |-> None]]

\* the embedding program configures the sandbox at startup (main.py itself
\* never calls set_sandbox_dir)
configure(d) ==
    /\ pc = "start"
    /\ SANDBOX_DIR' = set_sandbox_dir(d)
    /\ pc' = "main"
    /\ UNCHANGED <<vcall, state, fs, fsLog, log, fixCalls, verdicts, todo, gov, tasks,
                   steps, jcall, lcall,
                   twin, fixed, xcall>>

\* a line of the process output: its text, and the file or the iteration
\* number printed in it
Line(text, file, n) == [text |-> text, file |-> file, n |-> n]

\* the line each node prints when it starts (graph.py:28, 41, 59); the
\* fixer prints state['iterations']
Banner(i) ==
    IF steps[i].node = "auditor"
    THEN Line("--- Auditor Node", state.target_file, 0)
    ELSE IF steps[i].node = "fixer"
    THEN Line("--- Fixer Node: Iteration", None,
              1 + Cardinality({j \in 1..(i-1) : steps[j].node = "fixer"}))
    ELSE Line("--- Judge Node ---", None, 0)

\* everything the task printed: the banners, the line of check_status when
\* it ends the task on the budget (graph.py:81), the line of main
\* (main.py:50, 52)
TaskOutput ==
    [i \in 1..Len(steps) |-> Banner(i)]
    \o (IF pc = "END" /\ state.status # "SUCCESS"
        THEN <<Line("Max iterations reached. Stopping.", None, 0)>>
        ELSE <<>>)
    \o <<Line(IF pc = "END" THEN "Finished processing" ELSE "Error processing",
              state.target_file, 0)>>

\* what main has seen of a task when it leaves it, and what the task left
\* behind: its final status, the label of its last verification, its output
TaskEnd ==
    [file |-> state.target_file, how |-> pc, status |-> state.status,
     error_type |-> state.test_results.error_type, stdout |-> TaskOutput]

\* a for loop that an exception of one task ends
main_next_stop(budget) ==
    /\ pc \in {"start", "main", "END", "raised"}
    /\ tasks' = IF pc \in {"END", "raised"} THEN Append(tasks, TaskEnd) ELSE tasks
    /\ IF todo = <<>> \/ pc = "raised"
       THEN /\ pc' = "done"
            /\ UNCHANGED <<state, fixCalls, verdicts, todo, steps, fixed>>
            /\ twin' = [twin EXCEPT !.pc = "done"]
       ELSE /\ pc' = "auditor"
            /\ state' = initial_state(Head(todo), budget)
            /\ twin' = [pc |-> "auditor", state |-> initial_state(Head(todo), budget)]
            /\ todo' = Tail(todo)
            /\ fixCalls' = 0
            /\ verdicts' = <<>>
            /\ steps' = <<>>
            /\ fixed' = None
    /\ UNCHANGED <<SANDBOX_DIR, vcall, fs, fsLog, log, gov, jcall, lcall, xcall>>

\* main: the for loop over py_files; the next file's task starts when the
\* previous one reached END or raised an exception
main_next(budget) ==
    /\ pc \in {"start", "main", "END", "raised"}
    /\ tasks' = IF pc \in {"END", "raised"} THEN Append(tasks, TaskEnd) ELSE tasks
    /\ IF todo = <<>>
       THEN /\ pc' = "done"
            /\ UNCHANGED <<state, fixCalls, verdicts, todo, steps, fixed>>
            /\ twin' = [twin EXCEPT !.pc = "done"]
       ELSE /\ pc' = "auditor"
            /\ state' = initial_state(Head(todo), budget)
            /\ twin' = [pc |-> "auditor", state |-> initial_state(Head(todo), budget)]
            /\ todo' = Tail(todo)
            /\ fixCalls' = 0
            /\ verdicts' = <<>>
            /\ steps' = <<>>
            /\ fixed' = None
    /\ UNCHANGED <<SANDBOX_DIR, vcall, fs, fsLog, log, gov, jcall, lcall, xcall>>

Init ==
    /\ SANDBOX_DIR = None
    /\ vcall = NoCall
    /\ pc = "start"
    /\ state = NoTask
    /\ fs \in InitialFS
    /\ fsLog = <<>>
    /\ log = <<>>
    /\ fixCalls = 0
    /\ verdicts = <<>>
    /\ todo \in FileLists
    /\ gov = NoGov
    /\ tasks = <<>>
    /\ steps = <<>>
    /\ jcall = NoJCall
    /\ lcall = NoLCall
    /\ twin = [pc |-> "start", state |-> NoTask]
    /\ fixed = None
    /\ xcall = NoXCall

Next ==
    \/ configure("/sb")
    \/ \E b \in Budgets : main_next(b)
    \/ \E pyl \in PylintRuns, llm \in LLMOutcomes, plan \in Plans, save \in BOOLEAN :
          auditor_node(pyl, llm, plan, save)
    \/ \E llm1 \in LLMOutcomes, code \in Codes, llm2 \in LLMOutcomes,
          tcode \in TestCodes, save \in BOOLEAN :
          fixer_node(llm1, code, llm2, tcode, save)
    \/ \E run \in PytestRuns : judge_node(run)

Spec == Init /\ [][Next]_vars

(***************************************************************************)
(* validate_sandbox_path as a library function: any root is configured,    *)
(* any path is validated, with or without an override root.                *)
(***************************************************************************)

SandboxRoots == {"/sb", "/sb/", "/alias", "/sb/d", "/", "/w", ".", "/sb2"}

SandboxPaths ==
    { "/sb", "/sb/app.py", "/sb/d/x.py", "/sb/../out/app.py", "/sb/d/../../etc",
      "/sb2", "/sb2/app.py", "/sb/lnk/x.py", "/sb/in/x.py", "/alias/app.py",
      "/out/app.py", "app.py", "../sb/app.py", "/", "/sb/./d//x.py", "/sbx" }

sb_configure(d) ==
    /\ SANDBOX_DIR' = set_sandbox_dir(d)
    /\ UNCHANGED <<vcall, pc, state, fs, fsLog, log, fixCalls, verdicts, todo,
                   gov, tasks, steps, jcall, lcall,
                   twin, fixed, xcall>>

sb_validate(p, o) ==
    /\ vcall' = [file_path |-> p, sandbox_dir |-> o,
                 root |-> IF o \in {None, ""} THEN SANDBOX_DIR ELSE o,
                 result |-> validate_sandbox_path(p, o)]
    /\ UNCHANGED <<SANDBOX_DIR, pc, state, fs, fsLog, log, fixCalls, verdicts, todo,
                   gov, tasks, steps, jcall, lcall,
                   twin, fixed, xcall>>

InitSandbox ==
    /\ SANDBOX_DIR = None
    /\ vcall = NoCall
    /\ pc = "start"
    /\ state = NoTask
    /\ fs \in InitialFS
    /\ fsLog = <<>>
    /\ log = <<>>
    /\ fixCalls = 0
    /\ verdicts = <<>>
    /\ todo = <<>>
    /\ gov = NoGov
    /\ tasks = <<>>
    /\ steps = <<>>
    /\ jcall = NoJCall
    /\ lcall = NoLCall
    /\ twin = [pc |-> "start", state |-> NoTask]
    /\ fixed = None
    /\ xcall = NoXCall

NextSandbox ==
    \/ \E d \in SandboxRoots : sb_configure(d)
    \/ \E p \in SandboxPaths, o \in SandboxRoots \cup {None, ""} : sb_validate(p, o)

SpecSandbox == InitSandbox /\ [][NextSandbox]_vars

(***************************************************************************)
(* A run over several target files, with one pylint report, a budget of 2  *)
(* for every task (one fix, no retry), and rewrites that are a source text *)
(* or a mapping of file names to contents.                                 *)
(***************************************************************************)

MaxFiles == 2

RunTargets == {"/sb/app.py", "/out/app.py"}

RunLists == UNION { [1..n -> RunTargets] : n \in 1..MaxFiles }

RunBudgets == {2}

RunPylintRuns == { r \in PylintRuns : r.score = 833 }

RunCodes == {"x = 1", MultiFileResponse}

InitRun ==
    /\ SANDBOX_DIR = None
    /\ vcall = NoCall
    /\ pc = "start"
    /\ state = NoTask
    /\ fs \in InitialFS
    /\ fsLog = <<>>
    /\ log = <<>>
    /\ fixCalls = 0
    /\ verdicts = <<>>
    /\ todo \in RunLists
    /\ gov = NoGov
    /\ tasks = <<>>
    /\ steps = <<>>
    /\ jcall = NoJCall
    /\ lcall = NoLCall
    /\ twin = [pc |-> "start", state |-> NoTask]
    /\ fixed = None
    /\ xcall = NoXCall

NextRun ==
    \/ configure("/sb")
    \/ \E b \in RunBudgets : main_next(b)
    \/ \E pyl \in RunPylintRuns, llm \in LLMOutcomes, plan \in Plans, save \in BOOLEAN :
          auditor_node(pyl, llm, plan, save)
    \/ \E llm1 \in LLMOutcomes, code \in RunCodes, llm2 \in LLMOutcomes,
          tcode \in TestCodes, save \in BOOLEAN :
          fixer_node(llm1, code, llm2, tcode, save)
    \/ \E run \in PytestRuns : judge_node(run)

SpecRun == InitRun /\ [][NextRun]_vars

(***************************************************************************)
(* The classifier on its own: _classify_failure applied to a failed result *)
(* and then to the same result with the label stored in error_type, as     *)
(* evaluate stores it.                                                     *)
(***************************************************************************)

ClassifyOutputs ==
    { "bash: pytest: command not found",
      "test_app.py::test_a FAILED\nE  sh: 1: gcc: command not found\n== 1 failed ==",
      "test_app.py::test_a FAILED\n== 1 failed in 0.02s ==",
      "E ModuleNotFoundError: No module named 'app'",
      "[WinError 2] The system cannot find the file specified",
      "'pytest' is not recognized as an internal or external command",
      "E   KeyError: key not found",
      "ERROR: Tests timed out after 120 seconds",
      "TIMEOUT",
      "E  AssertionError: assert 'Command Not Found' == 'ok'",
      "" }

ErrorTypes == {None, "ENVIRONMENT_ERROR", "TIMEOUT", "CODE_ERROR"}

\* failed results, with and without a structured error_type
ClassifyResults ==
    { [ran |-> TRUE, success |-> FALSE, output |-> o,
       tests_passed |-> CountOcc(o, "PASSED"),
       tests_failed |-> CountOcc(o, "FAILED"),
       tests_error |-> CountOcc(o, "ERROR"),
       error_type |-> e, error_details |-> None]
      : o \in ClassifyOutputs, e \in ErrorTypes }

\* _classify_failure(results)
jc_classify(results) ==
    /\ jcall' = [made |-> TRUE, results |-> results,
                 label |-> classify_failure(results), again |-> None]
    /\ UNCHANGED <<SANDBOX_DIR, vcall, pc, state, fs, fsLog, log, fixCalls, verdicts,
                   todo, gov, tasks, steps, lcall,
                   twin, fixed, xcall>>

\* results["error_type"] = error_type (judge.py:75), then
\* _classify_failure(results) once more
jc_reclassify ==
    /\ jcall.made
    /\ jcall.again = None
    /\ jcall' = [jcall EXCEPT
                   !.results = [jcall.results EXCEPT !.error_type = jcall.label],
                   !.again = classify_failure(
                                [jcall.results EXCEPT !.error_type = jcall.label])]
    /\ UNCHANGED <<SANDBOX_DIR, vcall, pc, state, fs, fsLog, log, fixCalls, verdicts,
                   todo, gov, tasks, steps, lcall,
                   twin, fixed, xcall>>

InitJudge ==
    /\ SANDBOX_DIR = None
    /\ vcall = NoCall
    /\ pc = "start"
    /\ state = NoTask
    /\ fs \in InitialFS
    /\ fsLog = <<>>
    /\ log = <<>>
    /\ fixCalls = 0
    /\ verdicts = <<>>
    /\ todo = <<>>
    /\ gov = NoGov
    /\ tasks = <<>>
    /\ steps = <<>>
    /\ jcall = NoJCall
    /\ lcall = NoLCall
    /\ twin = [pc |-> "start", state |-> NoTask]
    /\ fixed = None
    /\ xcall = NoXCall

NextJudge ==
    \/ \E results \in ClassifyResults : jc_classify(results)
    \/ jc_reclassify

SpecJudge == InitJudge /\ [][NextJudge]_vars

(***************************************************************************)
(* The parser on its own: run_pytest on pytest processes whose output is   *)
(* short or longer than the caps, with and without a FAILED or an ERROR    *)
(* section.                                                                *)
(***************************************************************************)

\* s repeated n times
RECURSIVE Rep(_, _)
Rep(s, n) ==
    IF n = 0 THEN ""
    ELSE IF n % 2 = 0 THEN Rep(s \o s, n \div 2)
    ELSE s \o Rep(s, n - 1)

ParserStdouts ==
    { "test_app.py::test_a PASSED\n== 1 passed in 0.01s ==",
      "test_app.py::test_a FAILED\n== 1 failed in 0.02s ==",
      "test_app.py::test_a FAILED\nE   assert 1 == 2",
      "ERROR test_app.py\nE ModuleNotFoundError: No module named 'app'",
      "ERROR collecting test_app.py\n==== 1 error in 0.10s ====\n",
      "== no tests ran in 0.00s ==",
      "",
      "test_a FAILED\n" \o Rep("E   assert 0 > 1\n", 130),
      "ERROR collecting\n" \o Rep("E   SyntaxError: invalid\n", 90),
      Rep("PytestUnraisableExceptionWarning: ignored\n", 30),
      Rep("collected 0 items / skipped\n", 90) }

ParserStderrs == {"", "ImportWarning: deprecated"}

ParserRuns ==
    { [kind |-> "exit", returncode |-> rc, msg |-> "", stdout |-> o, stderr |-> e]
        : rc \in {0, 1, 2, 5}, o \in ParserStdouts, e \in ParserStderrs }
    \cup { r \in PytestRuns : r.kind # "exit" }

\* run_pytest(test_dir)
rp_call(run) ==
    /\ xcall' = [made |-> TRUE, run |-> run, results |-> run_pytest(run)]
    /\ UNCHANGED <<SANDBOX_DIR, vcall, pc, state, fs, fsLog, log, fixCalls, verdicts,
                   todo, gov, tasks, steps, jcall, lcall, twin, fixed>>

InitParser ==
    /\ SANDBOX_DIR = None
    /\ vcall = NoCall
    /\ pc = "start"
    /\ state = NoTask
    /\ fs \in InitialFS
    /\ fsLog = <<>>
    /\ log = <<>>
    /\ fixCalls = 0
    /\ verdicts = <<>>
    /\ todo = <<>>
    /\ gov = NoGov
    /\ tasks = <<>>
    /\ steps = <<>>
    /\ jcall = NoJCall
    /\ lcall = NoLCall
    /\ twin = [pc |-> "start", state |-> NoTask]
    /\ fixed = None
    /\ xcall = NoXCall

NextParser == \E run \in ParserRuns : rp_call(run)

SpecParser == InitParser /\ [][NextParser]_vars

(***************************************************************************)
(* The logger on its own: log_experiment called with any action and any    *)
(* details.                                                                *)
(***************************************************************************)

MaxLog == 2

LogActions == valid_actions \cup {"REFACTOR"}

\* a summary field: absent, empty or a text
Summaries == {None, "", "Run pytest on /sb"}

log_call(agent_name, action, details, status) ==
    /\ Len(log) < MaxLog
    /\ LET r == log_experiment(log, agent_name, action, details, status, None)
       IN  /\ log' = r.log
           /\ lcall' = [made |-> TRUE, action |-> action, details |-> details,
                        raised |-> r.raised, appended |-> r.log # log]
    /\ UNCHANGED <<SANDBOX_DIR, vcall, pc, state, fs, fsLog, fixCalls, verdicts,
                   todo, gov, tasks, steps, jcall,
                   twin, fixed, xcall>>

InitLogger ==
    /\ SANDBOX_DIR = None
    /\ vcall = NoCall
    /\ pc = "start"
    /\ state = NoTask
    /\ fs \in InitialFS
    /\ fsLog = <<>>
    /\ log = <<>>
    /\ fixCalls = 0
    /\ verdicts = <<>>
    /\ todo = <<>>
    /\ gov = NoGov
    /\ tasks = <<>>
    /\ steps = <<>>
    /\ jcall = NoJCall
    /\ lcall = NoLCall
    /\ twin = [pc |-> "start", state |-> NoTask]
    /\ fixed = None
    /\ xcall = NoXCall

NextLogger ==
    \E agent_name \in {"Auditor_Agent", "Fixer_Agent", "Judge_Agent"},
       action \in LogActions, i \in Summaries, o \in Summaries,
       status \in {"SUCCESS", "FAILURE"} :
        log_call(agent_name, action, Details(i, o), status)

SpecLogger == InitLogger /\ [][NextLogger]_vars

(***************************************************************************)
(* The governor on its own: agents invoke it one after the other, the      *)
(* sleep may overrun, the underlying call takes time, and the work between *)
(* two invocations takes time.                                             *)
(***************************************************************************)

MaxCalls == 3

Callers == {"analyze", "fix", "generate_tests"}

\* what chain.invoke can do: return, raise ResourceExhausted, raise another
\* exception
ChainOutcomes == LLMOutcomes \cup {"ConnectionError"}

Durations == 0..1

\* an agent enters invoke_with_delay, idle seconds after the previous
\* invocation ended
gov_invoke(caller, idle, extra) ==
    /\ gov.phase = "idle"
    /\ Len(gov.callers) < MaxCalls
    /\ gov' = gv_sleep([gov EXCEPT !.clock = gov.clock + idle], caller, extra)
    /\ UNCHANGED <<SANDBOX_DIR, vcall, pc, state, fs, fsLog, log, fixCalls, verdicts,
                   todo, tasks, steps, jcall, lcall,
                   twin, fixed, xcall>>

\* the sleep is over: chain.invoke is issued
gov_call ==
    /\ gov.phase = "ready"
    /\ gov' = gv_start(gov)
    /\ UNCHANGED <<SANDBOX_DIR, vcall, pc, state, fs, fsLog, log, fixCalls, verdicts,
                   todo, tasks, steps, jcall, lcall,
                   twin, fixed, xcall>>

\* chain.invoke ends
gov_return(outcome, dur, save_ok) ==
    /\ gov.phase = "calling"
    /\ gov' = gv_finish(gov, outcome, dur, save_ok)
    /\ UNCHANGED <<SANDBOX_DIR, vcall, pc, state, fs, fsLog, log, fixCalls, verdicts,
                   todo, tasks, steps, jcall, lcall,
                   twin, fixed, xcall>>

InitGovernor ==
    /\ SANDBOX_DIR = None
    /\ vcall = NoCall
    /\ pc = "start"
    /\ state = NoTask
    /\ fs \in InitialFS
    /\ fsLog = <<>>
    /\ log = <<>>
    /\ fixCalls = 0
    /\ verdicts = <<>>
    /\ todo = <<>>
    /\ gov = NoGov
    /\ tasks = <<>>
    /\ steps = <<>>
    /\ jcall = NoJCall
    /\ lcall = NoLCall
    /\ twin = [pc |-> "start", state |-> NoTask]
    /\ fixed = None
    /\ xcall = NoXCall

NextGovernor ==
    \/ \E caller \in Callers, idle \in Durations, extra \in Durations :
          gov_invoke(caller, idle, extra)
    \/ gov_call
    \/ \E outcome \in ChainOutcomes, dur \in Durations, save_ok \in BOOLEAN :
          gov_return(outcome, dur, save_ok)

SpecGovernor == InitGovernor /\ [][NextGovernor]_vars

(***************************************************************************)
(* Properties                                                              *)
(***************************************************************************)

\* a task is being processed, or has reached END and is not yet replaced
InTask == pc \in {"auditor", "fixer", "judge", "END"}

\* the judge node and check_status have just run
AfterJudge == pc \in {"fixer", "END"} /\ verdicts # <<>>

LastVerdict == verdicts[Len(verdicts)]

AllCodeErrors ==
    \A i \in DOMAIN verdicts : verdicts[i].error_type = "CODE_ERROR"

\* a is a prefix of b, component by component
IsPrefixSeq(a, b) == Len(a) <= Len(b) /\ SubSeq(b, 1, Len(a)) = a

\* the sandbox is configured and rejects p
Escapes(p) ==
    SANDBOX_DIR # None /\ validate_sandbox_path(p, None).kind = "PermissionError"

\* C1: in every state of a task, for every budget (0 and 1 included),
\* iterations <= max_iterations.
C1_IterationsWithinBudget ==
    InTask => state.iterations <= state.max_iterations

\* C2: whenever a judge step labels the failure ENVIRONMENT_ERROR or TIMEOUT,
\* the task ends at once and no further Fix is issued, whatever budget is
\* left.
C2_EnvironmentAbortsAtOnce ==
    (AfterJudge /\ LastVerdict.error_type \in {"ENVIRONMENT_ERROR", "TIMEOUT"})
        => pc = "END"

\* C3: after a judge step that fails with CODE_ERROR another Fix is issued if
\* and only if iterations < max_iterations; with iterations >= max_iterations
\* the task ends with status FAILURE and no further Fix.
C3_RetryIffBudgetLeft ==
    (AfterJudge /\ LastVerdict.error_type = "CODE_ERROR")
        => /\ (pc = "fixer") <=> (state.iterations < state.max_iterations)
           /\ (state.iterations >= state.max_iterations)
                 => (pc = "END" /\ state.status = "FAILURE")

\* C3 witness: a CODE_ERROR failure with budget left has sent the task back
\* to the fixer.
C3_Witness ==
    /\ AfterJudge
    /\ LastVerdict.error_type = "CODE_ERROR"
    /\ pc = "fixer"
    /\ state.iterations < state.max_iterations

\* C4: a task with max_iterations = 3 whose every judge step returns
\* CODE_ERROR ends with status FAILURE and iterations = 3.
C4_ScenarioA ==
    (pc = "END" /\ state.max_iterations = 3 /\ AllCodeErrors)
        => (state.status = "FAILURE" /\ state.iterations = 3)

\* C4 witness: a task of budget 3 has ended after judge steps that all
\* returned CODE_ERROR.
C4_Witness ==
    /\ pc = "END"
    /\ state.max_iterations = 3
    /\ verdicts # <<>>
    /\ AllCodeErrors

\* C5: a task whose first judge step reports success ends with status
\* SUCCESS, iterations = 1 and exactly one Fix call.
C5_ScenarioB ==
    (pc = "END" /\ Len(verdicts) = 1 /\ verdicts[1].success)
        => (state.status = "SUCCESS" /\ state.iterations = 1 /\ fixCalls = 1)

\* C6: iterations is incremented once per Fix attempt and by no other step,
\* so at any point of a task it equals the number of Fix attempts made.
C6_IterationsCountFixes ==
    InTask => state.iterations = fixCalls

\* C7: a pytest run that exceeds the timeout is labelled TIMEOUT, not
\* CODE_ERROR.
C7_TimeoutLabel ==
    (AfterJudge /\ LastVerdict.kind = "timeout")
        => LastVerdict.error_type = "TIMEOUT"

\* C8: for every root and path, validate_sandbox_path raises the sandbox
\* violation when the canonical path lies outside the root, and otherwise
\* returns the canonical path, which lies inside the root.
C8_SandboxDecision ==
    (vcall.file_path # None /\ vcall.root # None)
        => IF IsPrefixSeq(Canonical(vcall.root), Canonical(vcall.file_path))
           THEN /\ vcall.result.kind = "ok"
                /\ vcall.result.path = realpath(vcall.file_path)
                /\ IsPrefixSeq(Canonical(vcall.root), Components(vcall.result.path))
           ELSE vcall.result.kind = "PermissionError"

\* C9: a read or write of a path that escapes the sandbox fails the step
\* that asked for it: Analyze of an escaping target file never completes, so
\* the task never gets past the auditor node.
C9_EscapeIsFatal ==
    (InTask /\ Escapes(state.target_file)) => pc = "auditor"

\* C10: with the sandbox configured, every file read and write made by
\* Analyze or Fix went through the sandbox validation: it was made by
\* read_file or write_file after the validation, or at least on a path the
\* validation accepts.
C10_AllAccessGated ==
    SANDBOX_DIR # None =>
        \A i \in DOMAIN fsLog :
            fsLog[i].op \in {"read", "write"}
                => \/ fsLog[i].gated
                   \/ validate_sandbox_path(fsLog[i].path, None).kind = "ok"

\* C11: validate_sandbox_path called while no root is configured, and with
\* no override root, raises the configuration error (ValueError) and returns
\* no path.
C11_UnconfiguredFails ==
    (vcall.file_path # None /\ vcall.root = None)
        => (vcall.result.kind = "ValueError" /\ vcall.result.path = None)

\* C11 witness: a path that an existing root would accept has been validated
\* with no root configured and no override.
C11_Witness ==
    /\ vcall.file_path = "/sb/app.py"
    /\ vcall.sandbox_dir = None
    /\ vcall.root = None
    /\ vcall.result.kind = "ValueError"

\* C12: with the sandbox root unset, the configuration error of the first
\* file read halts the run: no task gets past its auditor node.
C12_ConfigErrorHaltsRun ==
    (SANDBOX_DIR = None /\ InTask) => pc = "auditor"

\* C20: a pytest run that collects no tests (exit code 5) is reported as a
\* failure and never moves the task to SUCCESS.
C20_NoTestsIsFailure ==
    /\ \A i \in DOMAIN verdicts :
          (verdicts[i].kind = "exit" /\ verdicts[i].returncode = 5)
              => ~verdicts[i].success
    /\ (AfterJudge /\ LastVerdict.kind = "exit" /\ LastVerdict.returncode = 5)
          => (~state.test_results.success /\ state.status = "FAILURE")

\* C20 witness: the judge has just evaluated a run that collected no tests.
C20_Witness ==
    /\ AfterJudge
    /\ LastVerdict.kind = "exit"
    /\ LastVerdict.returncode = 5
    /\ state.status = "FAILURE"


\* C13: when Fix returns a mapping of file names to contents, the entry
\* named "../evil.py" is not written and the entry named "helper.py" is
C13_MappingEntriesWritten ==
    (/\ SANDBOX_DIR = "/sb"
     /\ pc = "judge"
     /\ state.target_file = "/sb/app.py"
     /\ state.current_code = MultiFileResponse)
        => (fs["/evil.py"] = None /\ fs["/sb/helper.py"] = "y = 1")

\* C14: any two successive generation calls, whichever agents issue them,
\* are at least DELAY_BETWEEN_CALLS seconds apart
C14_MinimumGap ==
    \A i \in 2..Len(gov.callTimes) :
        gov.callTimes[i] - gov.callTimes[i-1] >= DELAY_BETWEEN_CALLS

\* two calls of different agents, the second issued right after the delay
C14_Witness ==
    /\ Len(gov.callTimes) = 2
    /\ gov.callers[1] # gov.callers[2]
    /\ gov.callTimes[2] - gov.callTimes[1] = DELAY_BETWEEN_CALLS

\* C15: at most one generation call is in flight, and a second one is
\* issued only when the one before it has ended
C15_OneInFlight ==
    /\ gov.inflight <= 1
    /\ gov.inflight = 1 <=> gov.phase = "calling"
    /\ Len(gov.callTimes) \in {Len(gov.callers), Len(gov.callers) - 1}

\* a second call is in flight after the first one has ended
C15_Witness ==
    /\ Len(gov.callTimes) = 2
    /\ gov.inflight = 1
    /\ gov.callers = <<"fix", "generate_tests">>

\* C16: the run never halts for quota exhaustion without a checkpoint
\* holding the error kind and a timestamp having been written
C16_NeverHaltsWithoutCheckpoint ==
    (gov.phase = "exit" /\ gov.quota) =>
        /\ gov.checkpoint.written
        /\ gov.checkpoint.error = "ResourceExhausted"
        /\ gov.checkpoint.timestamp = gov.clock

\* C17: a quota error ends the run with exit code 1 after one attempt of
\* the call, and no step of the task or of main follows it
C17_QuotaHaltsRun ==
    /\ [](gov.quota => /\ pc = "exit"
                       /\ gov.exitCode = 1
                       /\ gov.attempts = 1
                       /\ Len(gov.callTimes) = Len(gov.callers))
    /\ [][pc # "exit"]_vars

\* the Fix call of the first task met the quota error with a file left
C17_Witness ==
    /\ pc = "exit"
    /\ gov.quota
    /\ state.iterations = 1
    /\ gov.callers[Len(gov.callers)] = "fix"
    /\ tasks = <<>>
    /\ todo # <<>>

\* C18: a failure of the call other than quota exhaustion reaches the caller
\* as the same exception after one attempt, with no checkpoint and no exit
C18_OtherFailurePropagates ==
    (gov.error \notin {None, "ResourceExhausted"}) =>
        /\ gov.outcome = "raised"
        /\ gov.raised = gov.error
        /\ gov.attempts = 1
        /\ Len(gov.callTimes) = Len(gov.callers)
        /\ gov.checkpoint = NoCheckpoint
        /\ ~gov.saveTried
        /\ gov.phase = "idle" /\ gov.exitCode = 0

\* the chain raised a connection error and the caller received it
C18_Witness ==
    /\ gov.error = "ConnectionError"
    /\ gov.raised = "ConnectionError"
    /\ gov.outcome = "raised"

\* C19: after a task that ended in failure or raised an exception, main
\* starts the task of the next file of the list, and the run is done only
\* when no file is left
C19_RunContinues ==
    /\ [][(pc \in {"END", "raised"} /\ todo # <<>>)
            => /\ pc' = "auditor"
               /\ state'.target_file = Head(todo)
               /\ todo' = Tail(todo)
               /\ tasks' = Append(tasks, TaskEnd)]_vars
    /\ [](pc = "done" => todo = <<>>)

\* the first task raised, the second one ended in failure, and the run is done
C19_Witness ==
    /\ pc = "done"
    /\ Len(tasks) = 2
    /\ tasks[1].how = "raised"
    /\ tasks[2].how = "END" /\ tasks[2].status = "FAILURE"

\* the result of the last direct call carries a structured signal
Structured == jcall.results.error_type \in {"TIMEOUT", "ENVIRONMENT_ERROR"}

\* the output of the last direct call matches an infrastructure signature
Matches ==
    \E i \in DOMAIN ENVIRONMENT_ERROR_PATTERNS :
        Contains(jcall.results.output, ENVIRONMENT_ERROR_PATTERNS[i])

\* _classify_failure has been called and its label not yet stored
Classified == jcall.made /\ jcall.again = None

C22_Priority ==
    Classified =>
        /\ Structured => jcall.label = jcall.results.error_type
        /\ (~Structured /\ Matches) => jcall.label = "ENVIRONMENT_ERROR"
        /\ (~Structured /\ ~Matches) => jcall.label = "CODE_ERROR"
        /\ jcall.label = "CODE_ERROR" => (~Structured /\ ~Matches)

\* a structured TIMEOUT wins over an output that matches a signature
C22_Witness ==
    /\ Classified
    /\ jcall.results.error_type = "TIMEOUT"
    /\ Matches
    /\ jcall.label = "TIMEOUT"

\* C23: classifying the result again once the first label has been stored
\* in its error_type gives the same label
C23_Idempotent ==
    (jcall.made /\ jcall.again # None) =>
        /\ jcall.results.error_type = jcall.label
        /\ jcall.again = jcall.label

\* a CODE_ERROR label stored and found again
C23_Witness ==
    /\ jcall.made
    /\ jcall.results.error_type = "CODE_ERROR"
    /\ jcall.again = "CODE_ERROR"
    /\ ~Matches

\* C24: a record of a generation, fix or verify action whose input or output
\* summary is missing or empty is rejected with an error and not appended
C24_EmptySummaryRejected ==
    (/\ lcall.made
     /\ lcall.action \in {"CODE_GEN", "FIX", "DEBUG"}
     /\ \/ lcall.details.input_prompt \in {None, ""}
        \/ lcall.details.output_response \in {None, ""})
        => (lcall.raised = "ValueError" /\ ~lcall.appended)

\* a step of the task being processed (not main starting the next task)
TaskStep == pc \in {"auditor", "fixer", "judge"}

\* C25: once status holds a terminal value it does not change and no Fix
\* or Verify step of the task runs
C25_TerminalStatusStays ==
    [][(TaskStep /\ state.status \in {"SUCCESS", "FAILURE"})
         => (state'.status = state.status /\ steps' = steps)]_vars

\* C26: two tasks that ended, one on an environment error and one on a
\* code error, differ in their final status or in their output
C26_OutcomesDistinguishable ==
    \A i, j \in DOMAIN tasks :
        (/\ tasks[i].how = "END" /\ tasks[j].how = "END"
         /\ tasks[i].error_type = "ENVIRONMENT_ERROR"
         /\ tasks[j].error_type = "CODE_ERROR")
            => (tasks[i].status # tasks[j].status \/ tasks[i].stdout # tasks[j].stdout)

\* C27: error_context is non-empty only if the last Verify failed with
\* CODE_ERROR; it is empty after Analyze, after a successful Verify and
\* after a Verify that failed with ENVIRONMENT_ERROR or TIMEOUT
C27_FailureContext ==
    (InTask /\ state.error_context \notin {None, ""})
        => /\ verdicts # <<>>
           /\ ~LastVerdict.success
           /\ LastVerdict.error_type = "CODE_ERROR"

\* C28: current_code changes only in a Fix step that wrote the rewritten
\* content to the target file
C28_ArtifactOnlyBySuccessfulFix ==
    [][(TaskStep /\ state'.current_code # state.current_code)
         => /\ pc = "fixer"
            /\ steps'[Len(steps')].wrote
            /\ (fs'[realpath(state.target_file)] = state'.current_code)]_vars

\* C29: the steps of a task are Analyze once, then Fix and Verify in turn
C29_StepOrder ==
    /\ \A i \in DOMAIN steps :
          steps[i].node = IF i = 1 THEN "auditor"
                          ELSE IF i % 2 = 0 THEN "fixer" ELSE "judge"
    /\ pc = "auditor" => steps = <<>>
    /\ pc = "fixer" => (steps # <<>> /\ steps[Len(steps)].node \in {"auditor", "judge"})
    /\ pc = "judge" => (steps # <<>> /\ steps[Len(steps)].node = "fixer")

\* a task in its second Verify: Analyze, Fix, Verify, Fix, Verify
C29_Witness ==
    /\ Len(steps) = 5
    /\ steps[5].node = "judge"
    /\ steps[4].node = "fixer"
    /\ pc = "END"

\* C30: Fix and Verify leave the plan of Analyze unchanged
C30_PlanFrame ==
    [][(pc \in {"fixer", "judge"})
         => (state'.refactoring_plan = state.refactoring_plan)]_vars

\* a retry Fix has run with the plan of Analyze
C30_Witness ==
    /\ fixCalls = 2
    /\ pc = "judge"
    /\ state.refactoring_plan \in Plans
    /\ state.refactoring_plan # ""

\* the larger of two numbers
Max(a, b) == IF a >= b THEN a ELSE b

\* C31: every step of a task adds one to the steps it has run, and a task
\* never runs more than 1 + 2 * max(1, max_iterations - 1) steps, whatever
\* the budget and the verification outcomes: the retry loop ends
C31_TaskTerminates ==
    /\ [](InTask => Len(steps) <= 1 + 2 * Max(1, state.max_iterations - 1))
    /\ [][TaskStep => Len(steps') = Len(steps) + 1]_vars

\* a task with the largest budget that ended after all its Verify failed
C31_Witness ==
    /\ pc = "END"
    /\ state.max_iterations = MaxBudget
    /\ state.status = "FAILURE"
    /\ Len(steps) = 1 + 2 * Max(1, MaxBudget - 1)

C33_LogIterationOrder ==
    /\ \A i \in DOMAIN log :
          log[i].action \in {"FIX", "DEBUG"} => log[i].iteration # None
    /\ \A i, j \in DOMAIN log :
          (i < j /\ log[i].action = "FIX" /\ log[j].action = "FIX"
             /\ log[i].iteration # None /\ log[j].iteration # None)
            => log[i].iteration < log[j].iteration

\* C37: a task that ends has run at least one Fix and one Verify, and when
\* all its Verify failed it has run max(1, max_iterations - 1) Fix
C37_FixCount ==
    pc = "END" =>
        /\ fixCalls >= 1
        /\ Len(verdicts) >= 1
        /\ (\A i \in DOMAIN verdicts : ~verdicts[i].success)
              => fixCalls = Max(1, state.max_iterations - 1)

\* a task with budget 0 that ended after one Fix and one failed Verify
C37_Witness ==
    /\ pc = "END"
    /\ state.max_iterations = 0
    /\ fixCalls = 1
    /\ Len(verdicts) = 1
    /\ ~verdicts[1].success

\* C39: a retry Fix issues one generation call: the last call of the
\* governor after a retry Fix is the fix call, not a test generation
C39_RetryIssuesOneCall ==
    (pc = "judge" /\ fixCalls >= 2) => gov.callers[Len(gov.callers)] = "fix"

\* a state of a task without its pylint score
EraseScore(st) == [st EXCEPT !.pylint_score = 0]

\* C34: the same task run with another pylint score and the same outcomes
\* is at the same node, with the same status, iterations and every other
\* field of the state, after every step
C34_ScoreDoesNotGate ==
    InTask =>
        /\ twin.pc = pc
        /\ EraseScore(twin.state) = EraseScore(state)

\* a task and its twin with different scores, ended after a retry
C34_Witness ==
    /\ pc = "END"
    /\ twin.pc = "END"
    /\ twin.state.pylint_score # state.pylint_score
    /\ fixCalls = 2
    /\ state.status = "FAILURE"

\* C35: the error_context a retry Fix receives is the excerpt
\* (error_details) of the Verify before it
C35_RetryGetsExcerpt ==
    (pc = "fixer" /\ verdicts # <<>>)
        => fix_args(state).error_context = state.test_results.error_details

\* the part of the output the excerpt is taken from: the FAILED section,
\* else the ERROR section, else the whole output
ExcerptSource(output) ==
    IF Section(output, "FAILED") # None THEN Section(output, "FAILED")
    ELSE IF Section(output, "ERROR") # None THEN Section(output, "ERROR")
    ELSE output

\* C36: a successful run has no excerpt; the excerpt of a failed run is
\* its source when that is at most 2000 characters long, and otherwise 2000
\* characters of it followed by the truncation marker
C36_ExcerptBounded ==
    (xcall.made /\ xcall.run.kind = "exit") =>
        LET src == ExcerptSource(xcall.results.output)
            ex == xcall.results.error_details
        IN  /\ xcall.results.success => ex = None
            /\ (~xcall.results.success /\ src # "") =>
                  /\ Len(src) <= ExcerptCap => ex = src
                  /\ Len(src) > ExcerptCap =>
                        ex = SubSeq(src, 1, ExcerptCap) \o TruncationMarker

\* what Analyze read for the task: read_file of the target
Analyzed == read_file(fs, state.target_file).ret

\* C38: the first Fix of a task receives the content read by Analyze, and
\* every retry receives what the Fix before it returned
C38_RetryGetsPreviousFix ==
    pc = "fixer" =>
        fix_args(state).code_content = IF fixCalls = 0 THEN Analyzed ELSE fixed

\* a retry about to run on the output of the first Fix
C38_Witness ==
    /\ pc = "fixer"
    /\ fixCalls = 1
    /\ fixed = "x = 1"
    /\ fix_args(state).code_content = "x = 1"
    /\ steps[1].node = "auditor"

====
